---------------------------- MODULE Spec2Model ----------------------------
(***************************************************************************)
(* A state-machine model of clightning-dumpkeys.c: one process that reads  *)
(* a 32-byte secret, whitens it into a BIP32 seed, derives m/0/0 and       *)
(* prints the re-rooted extended private key.                              *)
(*                                                                         *)
(* The cryptographic library (hkdf, bip32, base58) is outside the file.    *)
(* Its results are symbolic terms [fn, n, of]: fn names the primitive, n   *)
(* is the length in bytes, of lists the inputs.  Whether a library call    *)
(* succeeds is chosen by the environment at the call.                      *)
(***************************************************************************)
EXTENDS Integers, Sequences, FiniteSets, TLC

(* ------------------------------ bounds --------------------------------- *)
\* longest secret file the environment offers (one byte more than needed)
MaxFileLen == 33
\* most reads of one run that are interrupted by a signal (EINTR)
MaxEintr == 2
\* most candidate seeds that master-key construction rejects in one run
MaxReject == 3
\* largest argument count the program is started with
MaxArgc == 3

(* -------------------------- program constants -------------------------- *)
BIP32_ENTROPY_LEN_256 == 32
BIP32_SERIALIZED_LEN == 78
BIP32_VER_MAIN_PUBLIC == 76067358
BIP32_VER_MAIN_PRIVATE == 76066276
BIP32_VER_TEST_PUBLIC == 70617039
BIP32_VER_TEST_PRIVATE == 70615956
WALLY_OK == 0
WALLY_ERROR == -1
WALLY_EINVAL == -2
WALLY_ENOMEM == -3

\* the null pointer, as the value of a char* that names no path
NULL == "(null pointer)"
\* the paths the program may be started with
Paths == {"hsm_secret", "backup/hsm_secret"}
\* the contents a secret file may have: all zero bytes, or a byte pattern
FileKinds == {"zero", "pattern"}

(* ----------------------------- byte helpers ---------------------------- *)
Min(a, b) == IF a < b THEN a ELSE b

\* k-th byte (1-based) of a secret file of the given kind
FileByte(kind, k) == IF kind = "zero" THEN 0 ELSE (k * 37 + 11) % 256

\* a u32 (below 2^31) in memory on a little-endian host, as hkdf sees &salt
U32LE(x) ==
  << x % 256, (x \div 256) % 256, (x \div 65536) % 256, (x \div 16777216) % 256 >>

\* a u32 in the big-endian layout of a serialized extended key
U32BE(x) ==
  << (x \div 16777216) % 256, (x \div 65536) % 256, (x \div 256) % 256, x % 256 >>

\* a symbolic byte string of n bytes produced by primitive fn from inputs of
Term(fn, n, of) == [fn |-> fn, n |-> n, of |-> of]

\* n zero bytes (static storage, or the result of memset(.., 0, n))
Zeros(n) == Term("zeros", n, << >>)

\* the bytes of an object nobody has written yet
Indeterminate(n) == Term("indeterminate", n, << >>)

\* the 10 bytes of the label "bip32 seed"
Bip32SeedInfo == << 98, 105, 112, 51, 50, 32, 115, 101, 101, 100 >>

(* ------------------- the library, as the program sees it --------------- *)
\* hkdf.h: 32 bytes of output keyed by salt, input key material and label
hkdf_sha256(salt_bytes, ikm, info) == Term("hkdf_sha256", 32, << salt_bytes, ikm, info >>)

\* the compressed public key of a private scalar
pub_key(priv) == Term("secp256k1_pubkey", 33, << priv >>)

\* HASH160 of a public key, the source of a child's parent fingerprint
hash160(pub) == Term("hash160", 20, << pub >>)

\* an ext_key nobody has written yet (an automatic variable)
UninitKey ==
  [ version |-> 0, depth |-> 0, child_num |-> 0,
    parent160 |-> Indeterminate(20),
    chain_code |-> Indeterminate(32),
    priv_key |-> Indeterminate(32) ]

\* an ext_key in static storage before the program writes it
ZeroKey ==
  [ version |-> 0, depth |-> 0, child_num |-> 0,
    parent160 |-> Zeros(20),
    chain_code |-> Zeros(32),
    priv_key |-> Zeros(32) ]

\* bip32.h: the master key a seed yields when construction accepts the seed
bip32_key_from_seed(seed, version) ==
  [ version |-> version, depth |-> 0, child_num |-> 0,
    parent160 |-> Zeros(20),
    chain_code |-> Term("hmac_sha512_right", 32, << seed >>),
    priv_key |-> Term("hmac_sha512_left", 32, << seed >>) ]

\* bip32.h: the private child of parent at a non-hardened index
bip32_key_from_parent(parent, index) ==
  [ version |-> parent.version,
    depth |-> (parent.depth + 1) % 256,
    child_num |-> index,
    parent160 |-> hash160(pub_key(parent.priv_key)),
    chain_code |-> Term("ckd_right", 32,
                        << parent.chain_code, pub_key(parent.priv_key), U32BE(index) >>),
    priv_key |-> Term("ckd_left_plus_parent", 32,
                      << parent.chain_code, parent.priv_key, U32BE(index) >>) ]

\* the first four bytes of a 20-byte hash, the serialized parent fingerprint
First4(h) == IF h.fn = "zeros" THEN Zeros(4) ELSE Term("first4", 4, << h >>)

\* bip32.h: the 78-byte layout of a private extended key, field by field
bip32_key_serialize(key) ==
  [ version |-> U32BE(key.version),
    depth |-> key.depth % 256,
    parent_fp |-> First4(key.parent160),
    child_num |-> U32BE(key.child_num),
    chain_code |-> key.chain_code,
    key_data |-> [lead |-> 0, scalar |-> key.priv_key] ]

\* base58.h: the Base58Check text of a byte buffer
wally_base58_from_bytes(bytes) == Term("base58check", 111, << bytes >>)

\* the text printf finds behind a char* that was never set
BogusLine == Term("indeterminate_string", 0, << >>)

(* ------------------------------- state --------------------------------- *)
VARIABLES
  pc,                \* where the process is: a label of the code, or exited / killed
  argc,              \* main's argument count
  argv1,             \* argv[1]: a path, or NULL when argc = 1 (argv[argc] is null)
  file,              \* the file the open() will find: [exists, len, kind]
  secretfile,        \* main's secretfile, passed to dump_xpriv and load_hsm
  opened,            \* the path load_hsm passed to open(), NULL before
  pos,               \* the file offset of the descriptor
  data,              \* read_all's data, as an offset into secretstuff.hsm_secret
  size,              \* read_all's size: bytes still to read
  eintrs,            \* reads interrupted so far
  secretstuff,       \* the static struct: [hsm_secret, bip32]
  bip32_key_version, \* the static version pair
  salt,              \* populate_secretstuff's salt, as its 4 bytes in memory
  bip32_seed,        \* populate_secretstuff's bip32_seed
  master_extkey,     \* populate_secretstuff's master_extkey
  child_extkey,      \* populate_secretstuff's child_extkey
  i,                 \* dump_xpriv's loop index
  buf,               \* dump_xpriv's static buf
  out,               \* dump_xpriv's out
  stdout,            \* the lines written to standard output, in order
  exit_code,         \* the exit status once pc = "exited", -1 before
  signal,            \* the signal that killed the process once pc = "killed"
  seeds,             \* history: every candidate seed generated, with the verdict
  parentCalls,       \* history: every bip32_key_from_parent call, with the result
  encoded            \* history: every pass of the encoding loop

env == << argc, argv1, file >>
reader == << opened, pos, data, size, eintrs >>
locals == << salt, bip32_seed, master_extkey, child_extkey >>
dumper == << i, buf, out, stdout >>
history == << seeds, parentCalls, encoded >>
vars == << pc, env, secretfile, reader, secretstuff, bip32_key_version,
           locals, dumper, exit_code, signal, history >>

\* the configured version variants of dump_xpriv
versions == << [type |-> "standard", version |-> BIP32_VER_MAIN_PRIVATE] >>

ARRAY_SIZE(a) == Len(a)

Init ==
  /\ pc = "main"
  /\ argc \in 1..MaxArgc
  /\ argv1 \in (IF argc >= 2 THEN Paths ELSE {NULL})
  /\ file \in [exists : BOOLEAN, len : 0..MaxFileLen, kind : FileKinds]
  /\ file.exists = FALSE => (file.len = 0 /\ file.kind = "zero")
  /\ secretfile = NULL
  /\ opened = NULL
  /\ pos = 0
  /\ data = 0
  /\ size = BIP32_ENTROPY_LEN_256
  /\ eintrs = 0
  /\ secretstuff = [ hsm_secret |-> [k \in 1..BIP32_ENTROPY_LEN_256 |-> 0],
                     bip32 |-> ZeroKey ]
  /\ bip32_key_version = [bip32_pubkey_version |-> 0, bip32_privkey_version |-> 0]
  /\ salt = U32LE(0)
  /\ bip32_seed = Indeterminate(BIP32_ENTROPY_LEN_256)
  /\ master_extkey = UninitKey
  /\ child_extkey = UninitKey
  /\ i = 0
  /\ buf = Zeros(BIP32_SERIALIZED_LEN)
  /\ out = Indeterminate(0)
  /\ stdout = << >>
  /\ exit_code = -1
  /\ signal = "none"
  /\ seeds = << >>
  /\ parentCalls = << >>
  /\ encoded = << >>

(* ----------------------- decisions the code takes ---------------------- *)
\* a main that only refuses surplus arguments
bad_argc_surplus_only(n) == n > 2

\* main: the argument count that sends the run to usage()
bad_argc(n) == n # 2

\* load_hsm: the path given to open()
open_path(sf) == IF sf # NULL THEN sf ELSE "hsm_secret"

\* read_all: a read result that ends the loop with false
read_short(done) == done <= 0

\* a load_hsm that drops the result of read_all
load_hsm_read_ignored(ok) == FALSE

\* load_hsm: the result of read_all that is fatal
load_hsm_read_failed(ok) == ~ok

\* a loop that forgets salt++
salt_stuck(s) == s

\* populate_secretstuff: salt++ on a u32, held as its four bytes in memory
\* (least significant first); the carry runs through the bytes and is
\* dropped after the fourth
salt_incr(s) ==
  LET s1 == s[1] + 1
      s2 == s[2] + (s1 \div 256)
      s3 == s[3] + (s2 \div 256)
      s4 == s[4] + (s3 \div 256)
  IN << s1 % 256, s2 % 256, s3 % 256, s4 % 256 >>

\* populate_secretstuff: the do-while repeats on this result of bip32_key_from_seed
seed_rejected(ret) == ret # WALLY_OK

\* a first derivation whose result is not looked at
child1_ignored(ret) == FALSE

\* populate_secretstuff: the first child derivation is fatal on this result
child1_failed(ret) == ret # WALLY_OK

\* a second derivation whose result is not looked at
child2_ignored(ret) == FALSE

\* populate_secretstuff: the second child derivation is fatal on this result
child2_failed(ret) == ret # WALLY_OK

\* a re-rooting that leaves the depth as derived
reroot_keeps_depth(key, ver) ==
  [key EXCEPT !.version = ver.version, !.parent160 = Zeros(20)]

\* a re-rooting whose memset runs past parent160 into the key material
reroot_overrun(key, ver) ==
  [key EXCEPT !.version = ver.version, !.depth = 0, !.parent160 = Zeros(20),
              !.priv_key = Zeros(32)]

\* dump_xpriv: the three writes to secretstuff.bip32 before a variant is serialized
reroot(key, ver) ==
  [key EXCEPT !.version = ver.version, !.depth = 0, !.parent160 = Zeros(20)]

\* the asserts of populate_secretstuff on the version pair
version_asserts(kv) ==
  /\ kv.bip32_pubkey_version \in {BIP32_VER_MAIN_PUBLIC, BIP32_VER_TEST_PUBLIC}
  /\ kv.bip32_privkey_version \in {BIP32_VER_MAIN_PRIVATE, BIP32_VER_TEST_PRIVATE}

\* rejected candidates so far
Rejected(log) == Cardinality({k \in 1..Len(log) : log[k].ret # WALLY_OK})

(* ------------------------------ the steps ------------------------------ *)
\* main: usage() on a wrong argument count, otherwise dump_xpriv(argv[1])
main ==
  /\ pc = "main"
  /\ IF bad_argc(argc)
       THEN /\ pc' = "exited"
            /\ exit_code' = 42
            /\ UNCHANGED secretfile
       ELSE /\ pc' = "dump_xpriv"
            /\ secretfile' = argv1
            /\ UNCHANGED exit_code
  /\ UNCHANGED << env, reader, secretstuff, bip32_key_version, locals, dumper,
                  signal, history >>

\* dump_xpriv up to the call of load_hsm
dump_xpriv ==
  /\ pc = "dump_xpriv"
  /\ secretstuff' = [secretstuff EXCEPT !.bip32.version = BIP32_VER_MAIN_PRIVATE]
  /\ bip32_key_version' = [ bip32_pubkey_version |-> BIP32_VER_MAIN_PUBLIC,
                            bip32_privkey_version |-> BIP32_VER_MAIN_PRIVATE ]
  /\ pc' = "load_hsm"
  /\ UNCHANGED << env, secretfile, reader, locals, dumper, exit_code, signal, history >>

\* load_hsm: open the secret file, fatal when it cannot be opened
load_hsm ==
  /\ pc = "load_hsm"
  /\ opened' = open_path(secretfile)
  /\ IF file.exists
       THEN /\ pc' = "read_all"
            /\ UNCHANGED exit_code
       ELSE /\ pc' = "exited"
            /\ exit_code' = 1
  /\ UNCHANGED << env, secretfile, pos, data, size, eintrs, secretstuff,
                  bip32_key_version, locals, dumper, signal, history >>

\* what one read(fd, data, size) may return: [n, errno]
ReadResults ==
  {[n |-> -1, errno |-> "EIO"]}
  \cup (IF eintrs < MaxEintr THEN {[n |-> -1, errno |-> "EINTR"]} ELSE {})
  \cup (IF pos >= file.len THEN {[n |-> 0, errno |-> "none"]} ELSE {})
  \cup {[n |-> k, errno |-> "none"] : k \in 1..Min(size, file.len - pos)}

\* load_hsm after read_all has returned ok: fatal, or close and populate
AfterReadAll(ok) ==
  IF load_hsm_read_failed(ok)
    THEN pc' = "exited" /\ exit_code' = 1
    ELSE pc' = "populate_secretstuff" /\ UNCHANGED exit_code

\* read_all: one pass of the loop, and the return to load_hsm when it ends
read_all ==
  /\ pc = "read_all"
  /\ size > 0
  /\ \E r \in ReadResults :
       IF r.n < 0 /\ r.errno = "EINTR"
         THEN /\ eintrs' = eintrs + 1
              /\ UNCHANGED << pc, exit_code, pos, data, size, secretstuff >>
         ELSE IF read_short(r.n)
           THEN /\ AfterReadAll(FALSE)
                /\ UNCHANGED << eintrs, pos, data, size, secretstuff >>
           ELSE /\ secretstuff' =
                     [secretstuff EXCEPT !.hsm_secret =
                        [k \in 1..BIP32_ENTROPY_LEN_256 |->
                           IF k > data /\ k <= data + r.n
                             THEN FileByte(file.kind, pos + (k - data))
                             ELSE @[k]]]
                /\ pos' = pos + r.n
                /\ data' = data + r.n
                /\ size' = size - r.n
                /\ IF size' = 0
                     THEN AfterReadAll(TRUE)
                     ELSE UNCHANGED << pc, exit_code >>
                /\ UNCHANGED eintrs
  /\ UNCHANGED << env, secretfile, opened, bip32_key_version, locals, dumper,
                  signal, history >>

\* populate_secretstuff up to the do-while
populate_secretstuff ==
  /\ pc = "populate_secretstuff"
  /\ salt' = U32LE(0)
  /\ bip32_key_version' = [ bip32_pubkey_version |-> BIP32_VER_MAIN_PUBLIC,
                            bip32_privkey_version |-> BIP32_VER_MAIN_PRIVATE ]
  /\ IF version_asserts(bip32_key_version')
       THEN pc' = "whiten" /\ UNCHANGED signal
       ELSE pc' = "killed" /\ signal' = "SIGABRT"
  /\ UNCHANGED << env, secretfile, reader, secretstuff, bip32_seed, master_extkey,
                  child_extkey, dumper, exit_code, history >>

\* one pass of the do-while: a candidate seed, salt++, master-key construction
whiten ==
  /\ pc = "whiten"
  /\ LET seed == hkdf_sha256(salt, secretstuff.hsm_secret, Bip32SeedInfo) IN
     \E ret \in {WALLY_OK, WALLY_ERROR} :
       /\ ret # WALLY_OK => Rejected(seeds) < MaxReject
       /\ bip32_seed' = seed
       /\ salt' = salt_incr(salt)
       /\ seeds' = Append(seeds, [salt |-> salt, seed |-> seed, ret |-> ret])
       /\ master_extkey' =
            IF ret = WALLY_OK
              THEN bip32_key_from_seed(seed, bip32_key_version.bip32_privkey_version)
              ELSE master_extkey
       /\ pc' = IF seed_rejected(ret) THEN "whiten" ELSE "child1"
  /\ UNCHANGED << env, secretfile, reader, secretstuff, bip32_key_version,
                  child_extkey, dumper, exit_code, signal, parentCalls, encoded >>

\* the first child derivation: master -> child 0
child1 ==
  /\ pc = "child1"
  /\ \E ret \in {WALLY_OK, WALLY_ERROR} :
       /\ parentCalls' = Append(parentCalls,
            [parent |-> master_extkey, index |-> 0, ret |-> ret,
             key |-> bip32_key_from_parent(master_extkey, 0)])
       /\ child_extkey' =
            IF ret = WALLY_OK THEN bip32_key_from_parent(master_extkey, 0)
                              ELSE child_extkey
       /\ IF child1_failed(ret)
            THEN pc' = "exited" /\ exit_code' = 1
            ELSE pc' = "child2" /\ UNCHANGED exit_code
  /\ UNCHANGED << env, secretfile, reader, secretstuff, bip32_key_version, salt,
                  bip32_seed, master_extkey, dumper, signal, seeds, encoded >>

\* the second child derivation: child 0 -> child 0, into secretstuff.bip32
child2 ==
  /\ pc = "child2"
  /\ \E ret \in {WALLY_OK, WALLY_ERROR} :
       /\ parentCalls' = Append(parentCalls,
            [parent |-> child_extkey, index |-> 0, ret |-> ret,
             key |-> bip32_key_from_parent(child_extkey, 0)])
       /\ secretstuff' =
            IF ret = WALLY_OK
              THEN [secretstuff EXCEPT !.bip32 = bip32_key_from_parent(child_extkey, 0)]
              ELSE secretstuff
       /\ IF child2_failed(ret)
            THEN pc' = "exited" /\ exit_code' = 1
            ELSE pc' = "dump_loop" /\ UNCHANGED exit_code
  /\ UNCHANGED << env, secretfile, reader, bip32_key_version, locals, dumper,
                  signal, seeds, encoded >>

\* the record of one pass of the encoding loop
Pass(key, ser, b58called, b58, printed) ==
  [ variant |-> i, key |-> key, ser |-> ser, b58called |-> b58called,
    b58 |-> b58, printed |-> printed ]

\* one pass of the loop over versions: re-root, serialize, encode, print
dump_loop ==
  /\ pc = "dump_loop"
  /\ i < ARRAY_SIZE(versions)
  /\ LET ver == versions[i + 1]
         key == reroot(secretstuff.bip32, ver)
     IN
     /\ secretstuff' = [secretstuff EXCEPT !.bip32 = key]
     /\ \/ \* bip32_key_serialize returns WALLY_OK
           /\ buf' = bip32_key_serialize(key)
           /\ \E b58 \in {WALLY_OK, WALLY_ENOMEM} :
                IF b58 = WALLY_OK
                  THEN /\ out' = wally_base58_from_bytes(buf')
                       /\ stdout' = Append(stdout, out')
                       /\ i' = i + 1
                       /\ encoded' = Append(encoded, Pass(key, WALLY_OK, TRUE, b58, TRUE))
                       /\ UNCHANGED << pc, signal >>
                  ELSE \* the result is not looked at and out was never set:
                       \* printf("%s\n", out) reads an unset pointer, which
                       \* either crashes or prints whatever text it finds
                       \E ub \in {"crashes", "prints"} :
                         IF ub = "prints"
                           THEN /\ stdout' = Append(stdout, BogusLine)
                                /\ i' = i + 1
                                /\ encoded' = Append(encoded,
                                     Pass(key, WALLY_OK, TRUE, b58, TRUE))
                                /\ UNCHANGED << pc, signal, out >>
                           ELSE /\ pc' = "killed"
                                /\ signal' = "SIGSEGV"
                                /\ encoded' = Append(encoded,
                                     Pass(key, WALLY_OK, TRUE, b58, FALSE))
                                /\ UNCHANGED << i, out, stdout >>
        \/ \* bip32_key_serialize fails: assert(ret == WALLY_OK) aborts
           /\ pc' = "killed"
           /\ signal' = "SIGABRT"
           /\ encoded' = Append(encoded, Pass(key, WALLY_EINVAL, FALSE, WALLY_OK, FALSE))
           /\ UNCHANGED << i, buf, out, stdout >>
  /\ UNCHANGED << env, secretfile, reader, bip32_key_version, locals, exit_code,
                  seeds, parentCalls >>

\* the loop is over: dump_xpriv returns 0 and main returns 0
main_return ==
  /\ pc = "dump_loop"
  /\ ~(i < ARRAY_SIZE(versions))
  /\ pc' = "exited"
  /\ exit_code' = 0
  /\ UNCHANGED << env, secretfile, reader, secretstuff, bip32_key_version, locals,
                  dumper, signal, history >>

Next ==
  \/ main
  \/ dump_xpriv
  \/ load_hsm
  \/ read_all
  \/ populate_secretstuff
  \/ whiten
  \/ child1
  \/ child2
  \/ dump_loop
  \/ main_return

Spec == Init /\ [][Next]_vars

\* the process has ended, by exit or by a signal
Ended == pc \in {"exited", "killed"}

(* ------------------------------ properties ----------------------------- *)
\* both child derivations were made and both succeeded
BothDerived ==
  /\ Len(parentCalls) = 2
  /\ parentCalls[1].ret = WALLY_OK
  /\ parentCalls[2].ret = WALLY_OK

\* every pass of the encoding loop printed the encoded key
KeyPrinted ==
  /\ Len(stdout) = ARRAY_SIZE(versions)
  /\ \A j \in 1..Len(stdout) : stdout[j].fn = "base58check"

\* C1: every run ends with exit code 42, 1 or 0: 42 exactly when argc # 2, and
\* then nothing was opened or derived; 1 exactly on a failed open, a short read
\* or a failed child derivation; 0 only when the secret was read in full, both
\* child derivations succeeded and the key was printed.
C1_ThreeExitCodes ==
  Ended =>
    /\ pc = "exited"
    /\ exit_code \in {0, 1, 42}
    /\ (exit_code = 42) <=> (argc # 2)
    /\ argc # 2 => (opened = NULL /\ seeds = << >> /\ parentCalls = << >>)
    /\ (exit_code = 1) <=>
         /\ argc = 2
         /\ \/ ~file.exists
            \/ size > 0
            \/ \E k \in 1..Len(parentCalls) : parentCalls[k].ret # WALLY_OK
    /\ exit_code = 0 => (size = 0 /\ BothDerived /\ KeyPrinted)

\* C2: while fewer than 32 bytes have been delivered no seed is generated, no
\* key is derived and nothing is printed; a run that opened the file and ended
\* with fewer than 32 bytes delivered ended with exit code 1.
C2_ShortReadFails ==
  /\ size > 0 =>
       /\ seeds = << >>
       /\ parentCalls = << >>
       /\ encoded = << >>
       /\ stdout = << >>
       /\ pc \in {"main", "dump_xpriv", "load_hsm", "read_all", "exited"}
  /\ (Ended /\ opened # NULL /\ size > 0) => (pc = "exited" /\ exit_code = 1)

\* a run that got some bytes over interrupted and short reads, then failed
C2_Witness ==
  /\ pc = "exited"
  /\ exit_code = 1
  /\ data > 0
  /\ size > 0
  /\ data + size = BIP32_ENTROPY_LEN_256
  /\ eintrs > 0
  /\ stdout = << >>

\* C3: every key that is serialized carries the version of its variant, depth
\* 0 and an all-zero parent fingerprint, with chain code, key material and
\* child index as the second child derivation produced them (at depth 2, with
\* a parent fingerprint that is not zero); the printed line encodes exactly
\* those fields.
C3_PrintedKeyIsRerooted ==
  /\ \A k \in 1..Len(encoded) :
       LET e == encoded[k]
           derived == parentCalls[2].key
       IN  /\ e.key.version = versions[e.variant + 1].version
           /\ e.key.depth = 0
           /\ e.key.parent160 = Zeros(20)
           /\ e.key.chain_code = derived.chain_code
           /\ e.key.priv_key = derived.priv_key
           /\ e.key.child_num = derived.child_num
           /\ derived.depth = 2
           /\ derived.parent160 # Zeros(20)
  /\ \A j \in 1..Len(stdout) :
       stdout[j].fn = "base58check" =>
         LET payload == stdout[j].of[1]
             derived == parentCalls[2].key
         IN  /\ payload.version = U32BE(versions[j].version)
             /\ payload.depth = 0
             /\ payload.parent_fp = Zeros(4)
             /\ payload.child_num = U32BE(derived.child_num)
             /\ payload.chain_code = derived.chain_code
             /\ payload.key_data = [lead |-> 0, scalar |-> derived.priv_key]

\* a key derived at depth 2 was printed
C3_Witness ==
  /\ Len(stdout) = 1
  /\ stdout[1].fn = "base58check"
  /\ Len(parentCalls) = 2
  /\ parentCalls[2].key.depth = 2
  /\ parentCalls[2].key.parent160.fn = "hash160"
  /\ secretstuff.bip32.depth = 0

\* C4: a run that ends with exit code 0 has written exactly one line per
\* configured variant, the j-th line in the j-th pass of the loop (and, when it
\* is the encoded key, under the j-th variant's version); every line on
\* standard output was written after the secret was read in full and after
\* both child derivations succeeded.
C4_OneLinePerVariant ==
  /\ (pc = "exited" /\ exit_code = 0) =>
       /\ Len(stdout) = ARRAY_SIZE(versions)
       /\ Len(encoded) = ARRAY_SIZE(versions)
       /\ \A j \in 1..Len(encoded) :
            /\ encoded[j].variant = j - 1
            /\ encoded[j].printed
            /\ stdout[j].fn = "base58check" =>
                 stdout[j].of[1].version = U32BE(versions[j].version)
  /\ stdout # << >> => (size = 0 /\ data = BIP32_ENTROPY_LEN_256 /\ BothDerived)

\* a successful run, after a rejected candidate seed and an interrupted read
C4_Witness ==
  /\ pc = "exited"
  /\ exit_code = 0
  /\ Len(stdout) = ARRAY_SIZE(versions)
  /\ Rejected(seeds) > 0
  /\ eintrs > 0

\* C5 as stated: started without the path argument, the program opens the
\* default file "hsm_secret" and goes on to the derivation.
C5_DefaultPathWhenOmitted ==
  (argc = 1 /\ Ended) => (opened = "hsm_secret" /\ pc = "exited" /\ exit_code # 42)

\* C5 as amended: started without the path argument, the program ends in
\* usage() with exit code 42 and opens nothing; whenever a file is opened the
\* path is argv[1], never the default that load_hsm holds for a null path.
C5_OmittedPathIsUsageError ==
  /\ (argc = 1 /\ pc # "main") =>
       /\ pc = "exited"
       /\ exit_code = 42
       /\ opened = NULL
       /\ seeds = << >>
  /\ opened # NULL => (secretfile # NULL /\ opened = secretfile /\ opened = argv1)

\* a run started without the path argument has ended
C5_Witness ==
  /\ argc = 1
  /\ argv1 = NULL
  /\ pc = "exited"
  /\ exit_code = 42
  /\ opened = NULL

\* C6: at most two child derivations are ever made, both at index 0, the first
\* from the master key and the second from the first child; a derivation that
\* failed is the last one made, the run has ended with exit code 1 and nothing
\* was encoded or printed.
C6_ChildFailureIsFatal ==
  /\ Len(parentCalls) <= 2
  /\ \A k \in 1..Len(parentCalls) :
       /\ parentCalls[k].index = 0
       /\ parentCalls[k].ret # WALLY_OK =>
            /\ k = Len(parentCalls)
            /\ pc = "exited"
            /\ exit_code = 1
            /\ encoded = << >>
            /\ stdout = << >>
  /\ Len(parentCalls) >= 1 => parentCalls[1].parent = master_extkey
  /\ Len(parentCalls) = 2 =>
       /\ parentCalls[1].ret = WALLY_OK
       /\ parentCalls[2].parent = parentCalls[1].key
       /\ parentCalls[2].parent = child_extkey

\* the first child derivation failed
C6_Witness ==
  /\ Len(parentCalls) = 1
  /\ parentCalls[1].ret # WALLY_OK
  /\ pc = "exited"
  /\ exit_code = 1

\* C7: a pass of the encoding loop in which serialization or Base58Check
\* encoding failed printed nothing and the process was aborted; a line was
\* printed only in a pass in which both reported success.
C7_EncodingFailureAborts ==
  /\ \A k \in 1..Len(encoded) :
       LET e == encoded[k]
           failed == e.ser # WALLY_OK \/ (e.b58called /\ e.b58 # WALLY_OK)
       IN  /\ failed => (~e.printed /\ pc = "killed")
           /\ e.printed => (e.ser = WALLY_OK /\ e.b58called /\ e.b58 = WALLY_OK)
  /\ \A j \in 1..Len(stdout) : stdout[j].fn = "base58check"

\* C8: the k-th candidate seed is hkdf of the master secret under salt k-1,
\* salt has been incremented once per candidate, only the last candidate can
\* be an accepted one, and after N rejections the master key is the one built
\* from the candidate with salt N.
C8_SaltSequence ==
  /\ salt = U32LE(Len(seeds))
  /\ \A k \in 1..Len(seeds) :
       /\ seeds[k].salt = U32LE(k - 1)
       /\ seeds[k].seed =
            hkdf_sha256(U32LE(k - 1), secretstuff.hsm_secret, Bip32SeedInfo)
       /\ seeds[k].ret = WALLY_OK => k = Len(seeds)
       /\ seeds[k].ret # WALLY_OK => (k < Len(seeds) \/ pc = "whiten")
  /\ (Len(seeds) > 0 /\ seeds[Len(seeds)].ret = WALLY_OK) =>
       /\ Len(seeds) = Rejected(seeds) + 1
       /\ bip32_seed =
            hkdf_sha256(U32LE(Rejected(seeds)), secretstuff.hsm_secret, Bip32SeedInfo)
       /\ master_extkey = bip32_key_from_seed(bip32_seed, BIP32_VER_MAIN_PRIVATE)
       /\ Len(parentCalls) >= 1 => parentCalls[1].parent = master_extkey

\* two candidates were rejected and the third gave the master key of the run
C8_Witness ==
  /\ Rejected(seeds) = 2
  /\ Len(seeds) = 3
  /\ seeds[3].ret = WALLY_OK
  /\ Len(parentCalls) = 2
  /\ pc = "exited"
  /\ exit_code = 0

\* C10 as stated: once loading and derivation are over, no step writes any
\* field of secretstuff.
C10_WrittenOnce ==
  [][pc = "dump_loop" => secretstuff' = secretstuff]_vars

\* C10 as amended: the master secret is not modified once it has been read in
\* full, and once derivation is over no step modifies the chain code, the key
\* material or the child index of the derived key.
C10_SecretAndKeyMaterialFrozen ==
  [][ /\ size = 0 => secretstuff'.hsm_secret = secretstuff.hsm_secret
      /\ pc = "dump_loop" =>
           /\ secretstuff'.hsm_secret = secretstuff.hsm_secret
           /\ secretstuff'.bip32.chain_code = secretstuff.bip32.chain_code
           /\ secretstuff'.bip32.priv_key = secretstuff.bip32.priv_key
           /\ secretstuff'.bip32.child_num = secretstuff.bip32.child_num ]_vars

\* the encoding loop has rewritten the derived key: depth 2 became 0, the
\* key material is still the derived one
C10_Witness ==
  /\ Len(encoded) >= 1
  /\ Len(parentCalls) = 2
  /\ parentCalls[2].key.depth = 2
  /\ secretstuff.bip32.depth = 0
  /\ secretstuff.bip32.parent160 = Zeros(20)
  /\ secretstuff.bip32.priv_key = parentCalls[2].key.priv_key
  /\ secretstuff.hsm_secret[1] # 0
=============================================================================
